---- MODULE Spec2Model ----
(***************************************************************************)
(* Model of src/deadlock_simulation.py, class BankersAlgorithm: the        *)
(* resource ledger (available / max_claim / allocation / need) with its    *)
(* setters, the safety algorithm is_safe and request_resources with its    *)
(* speculate-then-rollback protocol; and class ResourceAllocationGraph:    *)
(* the request / allocation edges over a networkx DiGraph and the cycle    *)
(* search of detect_deadlock.  Model of src/memory_allocation.py: the      *)
(* block list of a MemoryAllocator with the First Fit, Best Fit and Worst  *)
(* Fit allocate and the shared deallocate.                                 *)
(*                                                                         *)
(* numpy vectors are sequences of integers and matrices are sequences of   *)
(* rows; Python's 0-based index i is position i + 1 of the sequence.       *)
(* Process ids and the safe sequence keep the 0-based numbers of the code. *)
(***************************************************************************)
EXTENDS Integers, Sequences, FiniteSets, TLC

VARIABLES n_processes, n_resources, available, max_claim, allocation, need, lastOp

\* callers: the threads inside request_resources of the one ledger, each with
\* the line it stands at and its arguments
VARIABLES callers

\* the fields of a ResourceAllocationGraph
VARIABLES graph, processes, resources, resource_instances, resource_allocations

\* The fields of the graph object, as one tuple.
ragVars == <<graph, processes, resources, resource_instances, resource_allocations>>

\* the fields of a MemoryAllocator; stats holds the three counters
VARIABLES memory_size, blocks, algorithm_name, stats

\* The fields of the allocator object, as one tuple.
memVars == <<memory_size, blocks, algorithm_name, stats>>

vars == <<n_processes, n_resources, available, max_claim, allocation, need,
          lastOp, callers, ragVars, memVars>>

\* The four matrices of the ledger, as one tuple.
matrices == <<available, max_claim, allocation, need>>

(***************************************************************************)
(* Bounds of the model.                                                    *)
(***************************************************************************)
\* processes of the ledger built by Init
NProc == 2
\* resource types of the ledger built by Init
NRes == 2
\* largest entry of a vector or matrix handed to a call
MaxUnits == 1
\* memory_size handed to the allocator's constructor
MemorySize == 6
\* largest size handed to allocate
MaxRequest == 3
\* calls of allocate and deallocate made on one allocator
MaxCalls == 5

(***************************************************************************)
(* numpy helpers                                                           *)
(***************************************************************************)
Max2(a, b) == IF a >= b THEN a ELSE b

\* np.zeros(m, dtype=int)
ZeroVec(m) == [r \in 1..m |-> 0]

\* np.zeros((n, m), dtype=int)
ZeroMat(n, m) == [p \in 1..n |-> ZeroVec(m)]

\* np.any(a > b) for two vectors of the same length
AnyGreater(a, b) == \E r \in 1..Len(a) : a[r] > b[r]

\* np.all(a <= b) for two vectors of the same length
AllLeq(a, b) == \A r \in 1..Len(a) : a[r] <= b[r]

\* a + b and a - b for two vectors of the same length
VecAdd(a, b) == [r \in 1..Len(a) |-> a[r] + b[r]]
VecSub(a, b) == [r \in 1..Len(a) |-> a[r] - b[r]]

\* shape of a 2-D array with at least one row
Rows(a) == Len(a)
Cols(a) == Len(a[1])

\* numpy's broadcasting rule for one axis, and for two 2-D arrays
AxisCompatible(x, y) == x = y \/ x = 1 \/ y = 1
Broadcastable(a, b) ==
    /\ AxisCompatible(Rows(a), Rows(b))
    /\ AxisCompatible(Cols(a), Cols(b))

\* a - b for two broadcastable 2-D arrays: an axis of length 1 is stretched
BroadcastSub(a, b) ==
    [i \in 1..Max2(Rows(a), Rows(b)) |->
        [j \in 1..Max2(Cols(a), Cols(b)) |->
            a[IF Rows(a) = 1 THEN 1 ELSE i][IF Cols(a) = 1 THEN 1 ELSE j]
          - b[IF Rows(b) = 1 THEN 1 ELSE i][IF Cols(b) = 1 THEN 1 ELSE j]]]

(***************************************************************************)
(* The ledger object.  Operators take and return it as a record `self`.    *)
(***************************************************************************)
Self ==
    [n_processes |-> n_processes, n_resources |-> n_resources,
     available |-> available, max_claim |-> max_claim,
     allocation |-> allocation, need |-> need]

\* BankersAlgorithm.__init__(processes, resources)
Constructor(nproc, nres) ==
    [n_processes |-> nproc, n_resources |-> nres,
     available |-> ZeroVec(nres),
     max_claim |-> ZeroMat(nproc, nres),
     allocation |-> ZeroMat(nproc, nres),
     need |-> ZeroMat(nproc, nres)]

\* The record `self` becomes the next state, with the outcome of the call.
Becomes(self, op) ==
    /\ n_processes' = self.n_processes
    /\ n_resources' = self.n_resources
    /\ available' = self.available
    /\ max_claim' = self.max_claim
    /\ allocation' = self.allocation
    /\ need' = self.need
    /\ lastOp' = op
    /\ UNCHANGED <<callers, ragVars, memVars>>

\* What the last call was and how it ended: op, the process id and argument
\* it was given, its result, and the safe sequence is_safe built.
Op(op, pid, arg, result, seq, passes) ==
    [op |-> op, pid |-> pid, arg |-> arg, result |-> result,
     safe_sequence |-> seq, passes |-> passes]

NoSeq == <<>>

(***************************************************************************)
(* Setters (lines 30-46).  None of them looks at the shape of its          *)
(* argument: the array is stored as given, and _update_need then subtracts *)
(* with numpy's broadcasting, which raises ValueError when the shapes do   *)
(* not broadcast and otherwise yields a need of the broadcast shape.       *)
(***************************************************************************)
\* self.max_claim - self.allocation raises ValueError
UpdateNeedRaises(self) == ~Broadcastable(self.max_claim, self.allocation)

\* _update_need: self.need = self.max_claim - self.allocation
\* (need keeps its old value when the subtraction raises)
update_need(self) ==
    IF UpdateNeedRaises(self)
    THEN self
    ELSE [self EXCEPT !.need = BroadcastSub(self.max_claim, self.allocation)]

set_available(self, v) == [self EXCEPT !.available = v]

set_max_claim(self, m) == update_need([self EXCEPT !.max_claim = m])

set_allocation(self, m) == update_need([self EXCEPT !.allocation = m])

(***************************************************************************)
(* is_safe (lines 95-129)                                                  *)
(***************************************************************************)
\* Mutant of ScanFrom: the scan takes the highest index that qualifies.
RECURSIVE ScanFromHighest(_, _, _, _)
ScanFromHighest(i, self, work, finish) ==
    LET rest == IF i >= self.n_processes THEN self.n_processes
                ELSE ScanFromHighest(i + 1, self, work, finish)
    IN  IF i >= self.n_processes THEN self.n_processes
        ELSE IF rest < self.n_processes THEN rest
        ELSE IF ~finish[i + 1] /\ AllLeq(self.need[i + 1], work) THEN i
        ELSE self.n_processes

\* Mutant of ScanFrom: the scan gives up at the first unfinished process whose
\* need row does not fit in work instead of moving on to the next index.
RECURSIVE ScanFromNoSkip(_, _, _, _)
ScanFromNoSkip(i, self, work, finish) ==
    IF i >= self.n_processes THEN self.n_processes
    ELSE IF finish[i + 1] THEN ScanFromNoSkip(i + 1, self, work, finish)
    ELSE IF AllLeq(self.need[i + 1], work) THEN i
    ELSE self.n_processes

\* The for loop of lines 112-119 from index i on: the first index whose
\* process is unfinished and whose need row fits in work, or n when the loop
\* runs to its end without a break.
RECURSIVE ScanFrom(_, _, _, _)
ScanFrom(i, self, work, finish) ==
    IF i >= self.n_processes THEN self.n_processes
    ELSE IF ~finish[i + 1] /\ AllLeq(self.need[i + 1], work) THEN i
    ELSE ScanFrom(i + 1, self, work, finish)

\* Mutant of Release: a finished process gives nothing back to work.
ReleaseNothing(self, work, i) == work

\* One finished process (lines 115-117): its allocation row goes back to work.
Release(self, work, i) == VecAdd(work, self.allocation[i + 1])

\* Mutant of SafetyLoop: found is not cleared at the top of the pass, so
\* every pass that finishes a process is followed by one that finishes none
\* and is not the last.
RECURSIVE SafetyLoopIdlePasses(_, _, _, _, _)
SafetyLoopIdlePasses(self, work, finish, safe_sequence, passes) ==
    LET i == ScanFrom(0, self, work, finish)
    IN  IF i < self.n_processes
        THEN SafetyLoopIdlePasses(self, Release(self, work, i),
                                  [finish EXCEPT ![i + 1] = TRUE],
                                  Append(safe_sequence, i), passes + 2)
        ELSE [is_safe |-> \A k \in 1..self.n_processes : finish[k],
              safe_sequence |-> safe_sequence,
              passes |-> passes + 1,
              work |-> work]

\* The while loop of lines 110-119; passes counts its iterations.
RECURSIVE SafetyLoop(_, _, _, _, _)
SafetyLoop(self, work, finish, safe_sequence, passes) ==
    LET i == ScanFrom(0, self, work, finish)
    IN  IF i < self.n_processes
        THEN SafetyLoop(self, Release(self, work, i),
                        [finish EXCEPT ![i + 1] = TRUE],
                        Append(safe_sequence, i), passes + 1)
        ELSE [is_safe |-> \A k \in 1..self.n_processes : finish[k],
              safe_sequence |-> safe_sequence,
              passes |-> passes + 1,
              work |-> work]

\* is_safe: the value returned, the safe sequence printed, the passes made,
\* the local work on return
is_safe(self) ==
    SafetyLoop(self, self.available,
               [k \in 1..self.n_processes |-> FALSE], <<>>, 0)

\* Mutant of after_is_safe: work is self.available itself, not a copy, so
\* work += self.allocation[i] writes through to the ledger.
after_is_safe_aliased(self) == [self EXCEPT !.available = is_safe(self).work]

\* The ledger a call of is_safe leaves: work is a copy of self.available
\* (line 103) and finish and safe_sequence are locals, so every += and
\* assignment of lines 115-117 lands on a local.
after_is_safe(self) == self

(***************************************************************************)
(* request_resources (lines 48-93)                                         *)
(***************************************************************************)
\* Mutants of temporarily_allocate: one of the three updates is left out, or
\* the request is booked on every process.
temporarily_allocate_keeps_need(self, process_id, request) ==
    [self EXCEPT
        !.available = VecSub(self.available, request),
        !.allocation[process_id + 1] = VecAdd(self.allocation[process_id + 1], request)]

temporarily_allocate_keeps_available(self, process_id, request) ==
    [self EXCEPT
        !.allocation[process_id + 1] = VecAdd(self.allocation[process_id + 1], request),
        !.need[process_id + 1] = VecSub(self.need[process_id + 1], request)]

temporarily_allocate_every_row(self, process_id, request) ==
    [self EXCEPT
        !.available = VecSub(self.available, request),
        !.allocation = [p \in 1..Len(self.allocation) |->
                           VecAdd(self.allocation[p], request)],
        !.need = [p \in 1..Len(self.need) |-> VecSub(self.need[p], request)]]

\* _temporarily_allocate (lines 83-87)
temporarily_allocate(self, process_id, request) ==
    [self EXCEPT
        !.available = VecSub(self.available, request),
        !.allocation[process_id + 1] = VecAdd(self.allocation[process_id + 1], request),
        !.need[process_id + 1] = VecSub(self.need[process_id + 1], request)]

\* Mutant of rollback_allocation: need is not restored.
rollback_allocation_keeps_need(self, process_id, request) ==
    [self EXCEPT
        !.available = VecAdd(self.available, request),
        !.allocation[process_id + 1] = VecSub(self.allocation[process_id + 1], request)]

\* _rollback_allocation (lines 89-93)
rollback_allocation(self, process_id, request) ==
    [self EXCEPT
        !.available = VecAdd(self.available, request),
        !.allocation[process_id + 1] = VecSub(self.allocation[process_id + 1], request),
        !.need[process_id + 1] = VecAdd(self.need[process_id + 1], request)]

\* Mutants of request_resources: availability is checked before need; the
\* speculative commit is kept without asking is_safe.
request_resources_available_first(self, process_id, request) ==
    IF AnyGreater(request, self.available)
    THEN [self |-> self, granted |-> FALSE, reason |-> "InsufficientAvailable"]
    ELSE IF AnyGreater(request, self.need[process_id + 1])
    THEN [self |-> self, granted |-> FALSE, reason |-> "ExceedsNeed"]
    ELSE LET tmp == temporarily_allocate(self, process_id, request)
         IN  IF is_safe(tmp).is_safe
             THEN [self |-> tmp, granted |-> TRUE, reason |-> "Granted"]
             ELSE [self |-> rollback_allocation(tmp, process_id, request),
                   granted |-> FALSE, reason |-> "WouldBeUnsafe"]

\* Mutant of request_resources: the request is not compared with need.
request_resources_ignores_need(self, process_id, request) ==
    IF AnyGreater(request, self.available)
    THEN [self |-> self, granted |-> FALSE, reason |-> "InsufficientAvailable"]
    ELSE LET tmp == temporarily_allocate(self, process_id, request)
         IN  IF is_safe(tmp).is_safe
             THEN [self |-> tmp, granted |-> TRUE, reason |-> "Granted"]
             ELSE [self |-> rollback_allocation(tmp, process_id, request),
                   granted |-> FALSE, reason |-> "WouldBeUnsafe"]

request_resources_unchecked(self, process_id, request) ==
    IF AnyGreater(request, self.need[process_id + 1])
    THEN [self |-> self, granted |-> FALSE, reason |-> "ExceedsNeed"]
    ELSE IF AnyGreater(request, self.available)
    THEN [self |-> self, granted |-> FALSE, reason |-> "InsufficientAvailable"]
    ELSE [self |-> temporarily_allocate(self, process_id, request),
          granted |-> TRUE, reason |-> "Granted"]

\* The body of request_resources: the ledger it leaves and what it reports.
\* The code returns True or False; the three denials differ in the branch
\* taken and in the message printed (lines 63, 68, 80).
request_resources(self, process_id, request) ==
    IF AnyGreater(request, self.need[process_id + 1])
    THEN [self |-> self, granted |-> FALSE, reason |-> "ExceedsNeed"]
    ELSE IF AnyGreater(request, self.available)
    THEN [self |-> self, granted |-> FALSE, reason |-> "InsufficientAvailable"]
    ELSE LET tmp == temporarily_allocate(self, process_id, request)
         IN  IF is_safe(tmp).is_safe
             THEN [self |-> tmp, granted |-> TRUE, reason |-> "Granted"]
             ELSE [self |-> rollback_allocation(tmp, process_id, request),
                   granted |-> FALSE, reason |-> "WouldBeUnsafe"]

(***************************************************************************)
(* Inputs of the calls                                                     *)
(***************************************************************************)
\* rows with every entry the same, with only the first entry set, with only
\* the last entry set
UniformRows(m) == {[r \in 1..m |-> v] : v \in 0..MaxUnits}
FirstOnlyRows(m) == {[r \in 1..m |-> IF r = 1 THEN v ELSE 0] : v \in 1..MaxUnits}
LastOnlyRows(m) == {[r \in 1..m |-> IF r = m THEN v ELSE 0] : v \in 1..MaxUnits}

\* vectors handed to set_available
AvailableInputs(m) == UniformRows(m) \cup FirstOnlyRows(m)

\* matrices handed to set_max_claim: every process claims the same row
MaxClaimInputs(n, m) ==
    {[p \in 1..n |-> row] : row \in UniformRows(m)}

\* matrices handed to set_allocation: at most one process holds something
AllocationInputs(n, m) ==
    {[p \in 1..n |-> IF p = q THEN row ELSE ZeroVec(m)] :
        q \in 1..n, row \in {ZeroVec(m)} \cup LastOnlyRows(m)}

\* request vectors handed to request_resources: nothing, one unit of every
\* resource, one unit of the first resource.  (The code also accepts vectors
\* with negative components; they are not among the inputs explored here.)
RequestInputs(m) ==
    {[r \in 1..m |-> v] : v \in 0..1}
        \cup {[r \in 1..m |-> IF r = 1 THEN 1 ELSE 0]}

\* vectors and matrices whose shape is not the constructed one
MisshapedVectors(m) ==
    {[r \in 1..k |-> v] : k \in {1, m + 1} \ {m}, v \in 0..MaxUnits}

MisshapedMatrices(n, m) ==
    {[p \in 1..sh[1] |-> [r \in 1..sh[2] |-> v]] :
        sh \in {<<n + 1, m>>, <<n, m + 1>>, <<1, m>>} \ {<<n, m>>},
        v \in 0..MaxUnits}

(***************************************************************************)
(* Actions: one call each                                                  *)
(***************************************************************************)
SetAvailable(v) ==
    Becomes(set_available(Self, v),
            Op("set_available", -1, v, "ok", NoSeq, 0))

SetMaxClaim(m) ==
    Becomes(set_max_claim(Self, m),
            Op("set_max_claim", -1, m,
               IF UpdateNeedRaises([Self EXCEPT !.max_claim = m])
               THEN "ValueError" ELSE "ok", NoSeq, 0))

SetAllocation(m) ==
    Becomes(set_allocation(Self, m),
            Op("set_allocation", -1, m,
               IF UpdateNeedRaises([Self EXCEPT !.allocation = m])
               THEN "ValueError" ELSE "ok", NoSeq, 0))

RequestResources(process_id, request) ==
    LET out == request_resources(Self, process_id, request)
    IN  Becomes(out.self,
                Op("request_resources", process_id, request, out.reason,
                   NoSeq, 0))

\* a call of is_safe from outside: its return value, and its local
\* safe_sequence on return (printed when the state is safe)
IsSafe ==
    LET out == is_safe(Self)
    IN  Becomes(after_is_safe(Self),
                Op("is_safe", -1, <<>>,
                   IF out.is_safe THEN "safe" ELSE "unsafe",
                   out.safe_sequence, out.passes))

\* threads that may call into the one ledger
Threads == {"T1", "T2"}

\* a thread outside every call
Outside == [line |-> 0, process_id |-> -1, request |-> <<>>]

\* ResourceAllocationGraph.__init__: an empty DiGraph (its nodes, and its
\* edges <<u, v, type>>, at most one per ordered pair of nodes), no
\* processes, no resources, two empty dicts
RagConstructor ==
    [graph |-> [nodes |-> {}, edges |-> {}],
     processes |-> {}, resources |-> {},
     resource_instances |-> <<>>, resource_allocations |-> <<>>]

\* the graph object is exactly rag
RagIs(rag) ==
    /\ graph = rag.graph
    /\ processes = rag.processes
    /\ resources = rag.resources
    /\ resource_instances = rag.resource_instances
    /\ resource_allocations = rag.resource_allocations

\* process_id of a free block: Python's None, which no process id equals
None == "None"

\* MemoryBlock(start, size, process_id)
MemoryBlock(start, size, process_id) ==
    [start |-> start, size |-> size, process_id |-> process_id]

\* MemoryBlock.is_free
is_free(block) == block.process_id = None

\* MemoryAllocator.__init__ as run by the three subclasses, which then set
\* algorithm_name: one free block over the whole memory and the counters at
\* zero.  The history lists of stats (fragmentation, search time, sizes) are
\* measurements that allocate and deallocate append to and never read; they
\* are left out.
MemoryAllocator(size, name) ==
    [memory_size |-> size,
     blocks |-> <<MemoryBlock(0, size, None)>>,
     algorithm_name |-> name,
     stats |-> [allocations |-> 0, allocation_failures |-> 0,
                deallocations |-> 0]]

FirstFitAllocator(size) == MemoryAllocator(size, "First Fit")

BestFitAllocator(size) == MemoryAllocator(size, "Best Fit")

WorstFitAllocator(size) == MemoryAllocator(size, "Worst Fit")

\* the allocator object is exactly mem
MemIs(mem) ==
    /\ memory_size = mem.memory_size
    /\ blocks = mem.blocks
    /\ algorithm_name = mem.algorithm_name
    /\ stats = mem.stats

\* the state after construction
InitAs(self) ==
    /\ callers = [t \in Threads |-> Outside]
    /\ RagIs(RagConstructor)
    /\ MemIs(FirstFitAllocator(MemorySize))
    /\ n_processes = self.n_processes
    /\ n_resources = self.n_resources
    /\ available = self.available
    /\ max_claim = self.max_claim
    /\ allocation = self.allocation
    /\ need = self.need
    /\ lastOp = Op("init", -1, <<>>, "ok", NoSeq, 0)

(***************************************************************************)
(* Spec: a ledger of NProc x NRes, every call given arrays of that shape.  *)
(***************************************************************************)
Init == InitAs(Constructor(NProc, NRes))

Next ==
    \/ \E v \in AvailableInputs(n_resources) : SetAvailable(v)
    \/ \E m \in MaxClaimInputs(n_processes, n_resources) : SetMaxClaim(m)
    \/ \E m \in AllocationInputs(n_processes, n_resources) : SetAllocation(m)
    \/ \E p \in 0..(n_processes - 1) : \E req \in RequestInputs(n_resources) :
           RequestResources(p, req)
    \/ IsSafe

Spec == Init /\ [][Next]_vars

(***************************************************************************)
(* SpecShapes: the setters, also given arrays of another shape.            *)
(***************************************************************************)
NextShapes ==
    \/ \E v \in AvailableInputs(n_resources) \cup MisshapedVectors(n_resources) :
           SetAvailable(v)
    \/ \E m \in MaxClaimInputs(n_processes, n_resources)
                  \cup MisshapedMatrices(n_processes, n_resources) :
           SetMaxClaim(m)
    \/ \E m \in AllocationInputs(n_processes, n_resources)
                  \cup MisshapedMatrices(n_processes, n_resources) :
           SetAllocation(m)

SpecShapes == Init /\ [][NextShapes]_vars

(***************************************************************************)
(* SpecTextbook: a ledger of 5 x 3 given the textbook instance, then       *)
(* requests and safety checks on it.                                       *)
(***************************************************************************)
TextbookAvailable == <<3, 3, 2>>

TextbookMaxClaim ==
    << <<7, 5, 3>>, <<3, 2, 2>>, <<9, 0, 2>>, <<2, 2, 2>>, <<4, 3, 3>> >>

TextbookAllocation ==
    << <<0, 1, 0>>, <<2, 0, 0>>, <<3, 0, 2>>, <<2, 1, 1>>, <<0, 0, 2>> >>

\* request vectors tried on the textbook instance
TextbookRequests == {<<1, 0, 2>>, <<3, 3, 0>>, <<0, 2, 0>>}

InitTextbook ==
    InitAs(Constructor(Len(TextbookMaxClaim), Len(TextbookAvailable)))

NextTextbook ==
    \/ SetAvailable(TextbookAvailable)
    \/ SetMaxClaim(TextbookMaxClaim)
    \/ SetAllocation(TextbookAllocation)
    \/ \E p \in 0..(n_processes - 1) : \E req \in TextbookRequests :
           RequestResources(p, req)
    \/ IsSafe

SpecTextbook == InitTextbook /\ [][NextTextbook]_vars

(***************************************************************************)
(* Properties                                                              *)
(***************************************************************************)
\* the last call was request_resources(p, req), and how it ended
Requested == lastOp.op = "request_resources"
Granted == Requested /\ lastOp.result = "Granted"
Denied ==
    Requested /\ lastOp.result \in {"ExceedsNeed", "InsufficientAvailable", "WouldBeUnsafe"}

\* is_safe on the current ledger
SafeNow == is_safe(Self).is_safe

\* the ledger a step leaves
SelfAfter ==
    [n_processes |-> n_processes', n_resources |-> n_resources',
     available |-> available', max_claim |-> max_claim',
     allocation |-> allocation', need |-> need']

ProcessIds == 0..(n_processes - 1)

\* C1: a denied request_resources call (ExceedsNeed, InsufficientAvailable or
\* WouldBeUnsafe) leaves available, max_claim, allocation and need exactly as
\* they were before the call.
DeniedLeavesLedgerUnchanged == [][Denied' => matrices' = matrices]_vars

\* C1 witness: a request with a non-zero vector went through the speculative
\* commit and was rolled back.
RolledBackReached ==
    /\ Requested
    /\ lastOp.result = "WouldBeUnsafe"
    /\ lastOp.arg # ZeroVec(n_resources)

\* C2: a request is granted only into a safe state, and from a safe state
\* every request_resources call, granted or denied, leads to a safe state.
SafeStaysSafe ==
    [][Requested' =>
        ((lastOp'.result = "Granted" \/ SafeNow) => is_safe(SelfAfter).is_safe)]_vars

\* C2 witness: in a safe state a non-zero request that passed both checks
\* was refused because its commit would be unsafe, and the state is still
\* safe.
UnsafeRequestRefusedReached ==
    /\ Requested
    /\ lastOp.result = "WouldBeUnsafe"
    /\ lastOp.arg # ZeroVec(n_resources)
    /\ SafeNow

\* C3, as claimed: on the textbook instance is_safe returns true and its safe
\* sequence is [1, 3, 4, 0, 2].
TextbookInstance ==
    /\ available = TextbookAvailable
    /\ max_claim = TextbookMaxClaim
    /\ allocation = TextbookAllocation
    /\ lastOp.op = "is_safe"

TextbookSequenceClaimed ==
    TextbookInstance =>
        lastOp.result = "safe" /\ lastOp.safe_sequence = <<1, 3, 4, 0, 2>>

\* C3, amended: on the textbook instance is_safe returns true and its safe
\* sequence, the scan restarting from index 0 after each finished process,
\* is [1, 3, 0, 2, 4].
TextbookSequence ==
    TextbookInstance =>
        lastOp.result = "safe" /\ lastOp.safe_sequence = <<1, 3, 0, 2, 4>>

\* C3 witness: is_safe has run on the textbook instance.
TextbookChecked == TextbookInstance /\ need[1] = <<7, 4, 3>>

\* work before the k-th process of seq finishes: available plus the
\* allocation rows of the processes before it
RECURSIVE WorkBefore(_, _)
WorkBefore(seq, k) ==
    IF k = 1 THEN available
    ELSE [r \in 1..n_resources |->
             WorkBefore(seq, k - 1)[r] + allocation[seq[k - 1] + 1][r]]

\* the processes that can finish as k-th of seq
Finishable(seq, k) ==
    {i \in ProcessIds :
        /\ \A j \in 1..(k - 1) : seq[j] # i
        /\ \A r \in 1..n_resources : need[i + 1][r] <= WorkBefore(seq, k)[r]}

\* C4: is_safe finishes, at each step, the lowest-index unfinished process
\* whose need row fits in work, adds that process's allocation row to work
\* and appends it to the safe sequence; it stops when no unfinished process
\* fits and reports safe iff every process is finished.
LowestIndexRule ==
    lastOp.op = "is_safe" =>
        LET seq == lastOp.safe_sequence
        IN  /\ \A k \in 1..Len(seq) :
                   /\ seq[k] \in Finishable(seq, k)
                   /\ \A i \in Finishable(seq, k) : seq[k] <= i
            /\ Finishable(seq, Len(seq) + 1) = {}
            /\ lastOp.result = "safe" <=> Len(seq) = n_processes
            /\ lastOp.result \in {"safe", "unsafe"}

\* C4 witness: is_safe finished a higher-index process before a lower one
\* and reported safe, and could not have started with the lower one.
OutOfOrderSequenceReached ==
    /\ lastOp.op = "is_safe"
    /\ lastOp.result = "safe"
    /\ Len(lastOp.safe_sequence) >= 2
    /\ lastOp.safe_sequence[1] > lastOp.safe_sequence[2]

\* C5: need[p][r] = max_claim[p][r] - allocation[p][r] for every process p
\* and resource r, after any sequence of set_max_claim, set_allocation and
\* request_resources calls.
NeedIsClaimMinusAllocation ==
    \A p \in 1..n_processes : \A r \in 1..n_resources :
        need[p][r] = max_claim[p][r] - allocation[p][r]

\* C5 witness: a granted request has moved units from need to allocation.
NeedMovedReached ==
    /\ Granted
    /\ \E r \in 1..n_resources :
           /\ lastOp.arg[r] > 0
           /\ allocation[lastOp.pid + 1][r] > 0
           /\ need[lastOp.pid + 1][r] < max_claim[lastOp.pid + 1][r]

\* units of resource r in circulation: available plus what the processes hold
RECURSIVE Held(_, _)
Held(r, p) == IF p = 0 THEN 0 ELSE allocation[p][r] + Held(r, p - 1)

InCirculation == [r \in 1..n_resources |-> available[r] + Held(r, n_processes)]

\* C6: over any request_resources call, granted or denied, the total
\* available[r] + sum over p of allocation[p][r] keeps its value, for every r.
Conservation == [][Requested' => InCirculation' = InCirculation]_vars

\* C6 witness: a granted request has taken units out of available while
\* another process holds units too.
UnitsMovedReached ==
    /\ Granted
    /\ \E r \in 1..n_resources : lastOp.arg[r] > 0
    /\ \E q \in ProcessIds :
           q # lastOp.pid /\ allocation[q + 1] # ZeroVec(n_resources)

\* C7, as claimed: 0 <= allocation[p][r] <= max_claim[p][r] in every
\* reachable state, whatever was handed to the setters and to
\* request_resources.
AllocationWithinClaim ==
    \A p \in 1..n_processes : \A r \in 1..n_resources :
        0 <= allocation[p][r] /\ allocation[p][r] <= max_claim[p][r]

\* C8: a granted request_resources(p, req) lowers available by req, raises
\* allocation[p] by req and lowers need[p] by req; max_claim and the rows of
\* every other process stay as they were.
GrantedFrame ==
    [][Granted' =>
        LET p == lastOp'.pid + 1
            req == lastOp'.arg
        IN  /\ available' = [r \in 1..n_resources |-> available[r] - req[r]]
            /\ allocation'[p] = [r \in 1..n_resources |-> allocation[p][r] + req[r]]
            /\ need'[p] = [r \in 1..n_resources |-> need[p][r] - req[r]]
            /\ max_claim' = max_claim
            /\ \A q \in 1..n_processes :
                   q # p => allocation'[q] = allocation[q] /\ need'[q] = need[q]]_vars

\* C8 witness: a non-zero request was granted to a process with a non-zero
\* need left, while another process has allocation and need of its own.
GrantedAmongOthersReached ==
    /\ Granted
    /\ lastOp.arg # ZeroVec(n_resources)
    /\ \E q \in ProcessIds :
           /\ q # lastOp.pid
           /\ allocation[q + 1] # ZeroVec(n_resources)
           /\ need[q + 1] # need[lastOp.pid + 1]

\* C9: request_resources(p, req) is denied with ExceedsNeed whenever req
\* exceeds need[p] somewhere, also when it exceeds available too; with
\* InsufficientAvailable exactly when req <= need[p] and req exceeds
\* available somewhere; with WouldBeUnsafe exactly when req <= need[p],
\* req <= available and the ledger after the speculative commit is unsafe.
DenialOrder ==
    [][Requested' =>
        LET p == lastOp'.pid + 1
            req == lastOp'.arg
            exceedsNeed == \E r \in 1..n_resources : req[r] > need[p][r]
            exceedsAvailable == \E r \in 1..n_resources : req[r] > available[r]
            committed ==
                [Self EXCEPT
                    !.available = [r \in 1..n_resources |-> available[r] - req[r]],
                    !.allocation[p] = [r \in 1..n_resources |-> allocation[p][r] + req[r]],
                    !.need[p] = [r \in 1..n_resources |-> need[p][r] - req[r]]]
        IN  /\ exceedsNeed => lastOp'.result = "ExceedsNeed"
            /\ lastOp'.result = "ExceedsNeed" => exceedsNeed
            /\ lastOp'.result = "InsufficientAvailable"
                   <=> (~exceedsNeed /\ exceedsAvailable)
            /\ lastOp'.result = "WouldBeUnsafe"
                   <=> (~exceedsNeed /\ ~exceedsAvailable
                            /\ ~is_safe(committed).is_safe)]_vars

\* C9 witness: a request exceeding both need and available was denied with
\* ExceedsNeed (a denial leaves need and available as the call found them).
ExceedsBothReached ==
    /\ Requested
    /\ lastOp.result = "ExceedsNeed"
    /\ AnyGreater(lastOp.arg, need[lastOp.pid + 1])
    /\ AnyGreater(lastOp.arg, available)

\* the shape a setter's argument must have: M for set_available, (N, M) for
\* set_max_claim and set_allocation
ShapeMatches(op, arg) ==
    IF op = "set_available"
    THEN Len(arg) = n_resources
    ELSE Len(arg) = n_processes /\ \A p \in 1..Len(arg) : Len(arg[p]) = n_resources

\* C10, as claimed: a setter given an array whose shape is not the (N, M)
\* fixed at construction fails with DimensionMismatch and leaves available,
\* max_claim, allocation and need as they were.
MismatchRejected ==
    [][(/\ lastOp'.op \in {"set_available", "set_max_claim", "set_allocation"}
        /\ ~ShapeMatches(lastOp'.op, lastOp'.arg))
          => (lastOp'.result = "DimensionMismatch" /\ matrices' = matrices)]_vars

\* C11: a call of is_safe leaves available, max_claim, allocation and need
\* exactly as they were, whether it returns safe or unsafe.
IsSafeIsPureRead == [][lastOp'.op = "is_safe" => matrices' = matrices]_vars

\* C11 witness: is_safe has run and finished a process that holds units, so
\* its work ended different from available.
WorkGrewReached ==
    /\ lastOp.op = "is_safe"
    /\ Len(lastOp.safe_sequence) >= 1
    /\ is_safe(Self).work # available

(***************************************************************************)
(* SpecThreads: two threads call request_resources on the one ledger.  The *)
(* method takes no lock, so the interpreter may switch threads between any *)
(* two of its statements; a step here is one statement of lines 62-81.     *)
(***************************************************************************)
\* Thread t moves to `caller`, the ledger becomes self, and op is the call
\* that last returned.
ThreadStep(t, caller, self, op) ==
    /\ n_processes' = self.n_processes
    /\ n_resources' = self.n_resources
    /\ available' = self.available
    /\ max_claim' = self.max_claim
    /\ allocation' = self.allocation
    /\ need' = self.need
    /\ lastOp' = op
    /\ callers' = [callers EXCEPT ![t] = caller]
    /\ UNCHANGED <<ragVars, memVars>>

\* thread t at the line `line` of its call
At(t, line) == [callers[t] EXCEPT !.line = line]

\* thread t returns from its call, which ended as `reason`
Returns(t, self, reason) ==
    ThreadStep(t, Outside, self,
               Op("request_resources", callers[t].process_id,
                  callers[t].request, reason, NoSeq, 0))

\* thread t calls request_resources(process_id, request)
Enter(t, process_id, request) ==
    /\ callers[t].line = 0
    /\ ThreadStep(t, [line |-> 62, process_id |-> process_id,
                      request |-> request], Self, lastOp)

\* line 62: if np.any(request > self.need[process_id])
Line62(t) ==
    /\ callers[t].line = 62
    /\ IF AnyGreater(callers[t].request, need[callers[t].process_id + 1])
       THEN Returns(t, Self, "ExceedsNeed")
       ELSE ThreadStep(t, At(t, 67), Self, lastOp)

\* line 67: if np.any(request > self.available)
Line67(t) ==
    /\ callers[t].line = 67
    /\ IF AnyGreater(callers[t].request, available)
       THEN Returns(t, Self, "InsufficientAvailable")
       ELSE ThreadStep(t, At(t, 72), Self, lastOp)

\* line 72: self._temporarily_allocate(process_id, request)
Line72(t) ==
    /\ callers[t].line = 72
    /\ ThreadStep(t, At(t, 74),
                  temporarily_allocate(Self, callers[t].process_id,
                                       callers[t].request), lastOp)

\* line 74: if self.is_safe()
Line74(t) ==
    /\ callers[t].line = 74
    /\ IF is_safe(Self).is_safe
       THEN Returns(t, after_is_safe(Self), "Granted")
       ELSE ThreadStep(t, At(t, 79), after_is_safe(Self), lastOp)

\* lines 79-81: self._rollback_allocation(process_id, request); return False
Line79(t) ==
    /\ callers[t].line = 79
    /\ Returns(t, rollback_allocation(Self, callers[t].process_id,
                                      callers[t].request), "WouldBeUnsafe")

\* some thread is between its speculative allocation and its commit or
\* rollback
Speculating(t) == callers[t].line \in {74, 79}

\* the ledger the threads share: built, then given its available vector and
\* its maximum claims before any thread calls in
InitThreads ==
    \E v \in AvailableInputs(NRes) : \E m \in MaxClaimInputs(NProc, NRes) :
        InitAs(set_max_claim(set_available(Constructor(NProc, NRes), v), m))

NextThreads ==
    \/ IsSafe
    \/ \E t \in Threads : \E p \in 0..(n_processes - 1) :
          \E req \in RequestInputs(n_resources) : Enter(t, p, req)
    \/ \E t \in Threads : Line62(t)
    \/ \E t \in Threads : Line67(t)
    \/ \E t \in Threads : Line72(t)
    \/ \E t \in Threads : Line74(t)
    \/ \E t \in Threads : Line79(t)

SpecThreads == InitThreads /\ [][NextThreads]_vars

\* C12: request_resources is atomic among concurrent callers: no caller, and
\* no is_safe call, observes the speculative state of another caller, and
\* available never has a negative component.
AtomicAmongCallers ==
    /\ \A r \in 1..Len(available) : available[r] >= 0
    /\ \A t \in Threads : \A u \in Threads \ {t} :
          Speculating(t) => callers[u].line \notin {62, 67, 72, 74}
    /\ lastOp.op = "is_safe" => \A t \in Threads : ~Speculating(t)

(***************************************************************************)
(* ResourceAllocationGraph (lines 178-260).  Node ids are strings.  The    *)
(* DiGraph keeps one edge per ordered pair of nodes: add_edge on a pair    *)
(* that has an edge rewrites its type.  A dict is a function on its keys,  *)
(* a list a sequence.  Node attributes (type, instances) are written by    *)
(* add_node and read only by the drawing code, so nodes are a plain set.   *)
(***************************************************************************)
\* d[k] = v on a dict
Put(d, k, v) == [x \in (DOMAIN d) \cup {k} |-> IF x = k THEN v ELSE d[x]]

\* list.remove(x): the list without its first x
RemoveFirst(list, x) ==
    LET i == CHOOSE k \in 1..Len(list) :
                 list[k] = x /\ \A j \in 1..(k - 1) : list[j] # x
    IN  [k \in 1..(Len(list) - 1) |-> IF k < i THEN list[k] ELSE list[k + 1]]

\* x in list
Contains(list, x) == \E k \in 1..Len(list) : list[k] = x

\* nx.DiGraph: add_node, has_edge, add_edge, remove_edge
add_node(g, n) == [g EXCEPT !.nodes = @ \cup {n}]

has_edge(g, u, v) == \E e \in g.edges : e[1] = u /\ e[2] = v

add_edge(g, u, v, type) ==
    [nodes |-> g.nodes \cup {u, v},
     edges |-> {e \in g.edges : ~(e[1] = u /\ e[2] = v)} \cup {<<u, v, type>>}]

remove_edge(g, u, v) ==
    [g EXCEPT !.edges = {e \in @ : ~(e[1] = u /\ e[2] = v)}]

\* The graph object as a record `rag`.
Rag ==
    [graph |-> graph, processes |-> processes, resources |-> resources,
     resource_instances |-> resource_instances,
     resource_allocations |-> resource_allocations]

\* add_process (lines 189-192)
add_process(rag, process) ==
    [rag EXCEPT !.processes = @ \cup {process},
                !.graph = add_node(@, process)]

\* Mutant of add_resource: the holders of a resource that is already
\* registered are kept.
add_resource_keeps_holders(rag, resource, instances) ==
    [rag EXCEPT !.resources = @ \cup {resource},
                !.resource_instances = Put(@, resource, instances),
                !.resource_allocations =
                    IF resource \in DOMAIN @ THEN @ ELSE Put(@, resource, <<>>),
                !.graph = add_node(@, resource)]

\* add_resource (lines 194-199)
add_resource(rag, resource, instances) ==
    [rag EXCEPT !.resources = @ \cup {resource},
                !.resource_instances = Put(@, resource, instances),
                !.resource_allocations = Put(@, resource, <<>>),
                !.graph = add_node(@, resource)]

\* lines 203-206 and 212-215: an endpoint that is not registered is added,
\* a resource with the default instances=1
Registered(rag, process, resource) ==
    LET a == IF process \notin rag.processes
             THEN add_process(rag, process) ELSE rag
    IN  IF resource \notin a.resources
        THEN add_resource(a, resource, 1) ELSE a

\* Mutants of request_edge: both endpoints are registered anew on every
\* call; no endpoint is registered.
request_edge_registers_again(rag, process, resource) ==
    [add_resource(add_process(rag, process), resource, 1) EXCEPT
        !.graph = add_edge(@, process, resource, "request")]

request_edge_unregistered(rag, process, resource) ==
    [rag EXCEPT !.graph = add_edge(@, process, resource, "request")]

\* request_edge (lines 201-208)
request_edge(rag, process, resource) ==
    [Registered(rag, process, resource) EXCEPT
        !.graph = add_edge(@, process, resource, "request")]

\* allocation_edge (lines 210-218)
allocation_edge(rag, resource, process) ==
    LET a == Registered(rag, process, resource)
    IN  [a EXCEPT
            !.graph = add_edge(@, resource, process, "allocation"),
            !.resource_allocations[resource] = Append(@, process)]

\* Mutant of remove_request_edge: the edge stays.
remove_request_edge_keeps_edge(rag, process, resource) == rag

\* remove_request_edge (lines 220-223)
remove_request_edge(rag, process, resource) ==
    IF has_edge(rag.graph, process, resource)
    THEN [rag EXCEPT !.graph = remove_edge(@, process, resource)]
    ELSE rag

\* line 229 raises: KeyError when resource is no key of the dict, ValueError
\* when process is not in the list
RemoveAllocationRaises(rag, resource, process) ==
    /\ has_edge(rag.graph, resource, process)
    /\ \/ resource \notin DOMAIN rag.resource_allocations
       \/ ~Contains(rag.resource_allocations[resource], process)

\* remove_allocation_edge (lines 225-229): the edge is removed at line 228
\* before line 229 can raise
remove_allocation_edge(rag, resource, process) ==
    IF ~has_edge(rag.graph, resource, process) THEN rag
    ELSE IF RemoveAllocationRaises(rag, resource, process)
    THEN [rag EXCEPT !.graph = remove_edge(@, resource, process)]
    ELSE [rag EXCEPT
            !.graph = remove_edge(@, resource, process),
            !.resource_allocations[resource] = RemoveFirst(@, process)]

(***************************************************************************)
(* detect_deadlock (lines 231-260)                                         *)
(***************************************************************************)
\* the nodes an edge of g leads to from u
Successors(g, u) == {e[2] : e \in {x \in g.edges : x[1] = u}}

\* the nodes on a path
NodesOf(path) == {path[i] : i \in 1..Len(path)}

\* the simple paths of g with one node more than those of `paths`
Longer(g, paths) ==
    UNION {{Append(path, v) :
                v \in Successors(g, path[Len(path)]) \ NodesOf(path)} :
           path \in paths}

\* the simple paths of g of up to k nodes more than those of `paths`
RECURSIVE Grown(_, _, _)
Grown(g, paths, k) ==
    IF k = 0 \/ paths = {} THEN paths
    ELSE paths \cup Grown(g, Longer(g, paths), k - 1)

SimplePaths(g) == Grown(g, {<<n>> : n \in g.nodes}, Cardinality(g.nodes))

\* the same cycle, started at each of its nodes
Rotations(cycle) ==
    {[i \in 1..Len(cycle) |-> cycle[((i + k - 1) % Len(cycle)) + 1]] :
        k \in 0..(Len(cycle) - 1)}

\* Mutant of simple_cycles: a cycle is listed once from each of its nodes.
simple_cycles_from_every_node(g) ==
    {q \in SimplePaths(g) : has_edge(g, q[Len(q)], q[1])}

\* nx.simple_cycles(g): every elementary circuit of g, each once, as the list
\* of its nodes from some node of it; the lists come in no stated order, so
\* they are a set here
simple_cycles(g) ==
    {CHOOSE c \in Rotations(path) : TRUE :
        path \in {q \in SimplePaths(g) : has_edge(g, q[Len(q)], q[1])}}

\* Mutant of is_alternating: the successor of a process is looked up among
\* the processes.
is_alternating_among_processes(rag, cycle) ==
    \A i \in 1..Len(cycle) :
        LET curr == cycle[i]
            next_node == cycle[(i % Len(cycle)) + 1]
        IN  /\ ~(curr \in rag.processes /\ next_node \notin rag.processes)
            /\ ~(curr \in rag.resources /\ next_node \notin rag.processes)

\* lines 243-254: no process of the cycle is followed by a non-resource and
\* no resource by a non-process
is_alternating(rag, cycle) ==
    \A i \in 1..Len(cycle) :
        LET curr == cycle[i]
            next_node == cycle[(i % Len(cycle)) + 1]
        IN  /\ ~(curr \in rag.processes /\ next_node \notin rag.resources)
            /\ ~(curr \in rag.resources /\ next_node \notin rag.processes)

\* Mutants of detect_deadlock: cycles of more than two nodes are dropped;
\* no cycle is ever reported.
detect_deadlock_short_cycles(rag) ==
    LET deadlock_cycles ==
            {c \in simple_cycles(rag.graph) :
                is_alternating(rag, c) /\ Len(c) <= 2}
    IN  [has_deadlock |-> deadlock_cycles # {},
         deadlock_cycles |-> deadlock_cycles]

detect_deadlock_never(rag) ==
    [has_deadlock |-> FALSE, deadlock_cycles |-> {}]

\* detect_deadlock: the pair it returns
detect_deadlock(rag) ==
    LET deadlock_cycles ==
            {c \in simple_cycles(rag.graph) : is_alternating(rag, c)}
    IN  [has_deadlock |-> deadlock_cycles # {},
         deadlock_cycles |-> deadlock_cycles]

\* Mutant of after_detect_deadlock: the edges of the cycles found are taken
\* out of the graph.
after_detect_deadlock_consumes(rag) ==
    [rag EXCEPT !.graph.edges =
        {e \in @ : \A c \in detect_deadlock(rag).deadlock_cycles :
                      \A i \in 1..Len(c) :
                          ~(c[i] = e[1] /\ c[(i % Len(c)) + 1] = e[2])}]

\* The graph object a call of detect_deadlock leaves: cycles, deadlock_cycles
\* and is_alternating are locals, nx.simple_cycles reads the graph it is
\* given, and lines 243-257 only test membership in self.processes and
\* self.resources.
after_detect_deadlock(rag) == rag

(***************************************************************************)
(* Calls on the graph                                                      *)
(***************************************************************************)
\* the last call on the graph: its name, its arguments, how it ended ("ok"
\* or the exception raised) and, for detect_deadlock, the pair returned
Call(op, args, result, has_deadlock, deadlock_cycles) ==
    [op |-> op, args |-> args, result |-> result,
     has_deadlock |-> has_deadlock, deadlock_cycles |-> deadlock_cycles]

\* The record `rag` becomes the next state of the graph object.
RagBecomes(rag, op) ==
    /\ graph' = rag.graph
    /\ processes' = rag.processes
    /\ resources' = rag.resources
    /\ resource_instances' = rag.resource_instances
    /\ resource_allocations' = rag.resource_allocations
    /\ lastOp' = op
    /\ UNCHANGED <<n_processes, n_resources, available, max_claim,
                   allocation, need, callers, memVars>>

AddProcess(process) ==
    RagBecomes(add_process(Rag, process),
               Call("add_process", <<process>>, "ok", FALSE, {}))

AddResource(resource, instances) ==
    RagBecomes(add_resource(Rag, resource, instances),
               Call("add_resource", <<resource, instances>>, "ok", FALSE, {}))

RequestEdge(process, resource) ==
    RagBecomes(request_edge(Rag, process, resource),
               Call("request_edge", <<process, resource>>, "ok", FALSE, {}))

AllocationEdge(resource, process) ==
    RagBecomes(allocation_edge(Rag, resource, process),
               Call("allocation_edge", <<resource, process>>, "ok", FALSE, {}))

RemoveRequestEdge(process, resource) ==
    RagBecomes(remove_request_edge(Rag, process, resource),
               Call("remove_request_edge", <<process, resource>>, "ok",
                    FALSE, {}))

RemoveAllocationEdge(resource, process) ==
    RagBecomes(remove_allocation_edge(Rag, resource, process),
               Call("remove_allocation_edge", <<resource, process>>,
                    IF ~RemoveAllocationRaises(Rag, resource, process)
                    THEN "ok"
                    ELSE IF resource \notin DOMAIN resource_allocations
                    THEN "KeyError" ELSE "ValueError",
                    FALSE, {}))

DetectDeadlock ==
    LET out == detect_deadlock(Rag)
    IN  RagBecomes(after_detect_deadlock(Rag),
                   Call("detect_deadlock", <<>>, "ok",
                        out.has_deadlock, out.deadlock_cycles))

(***************************************************************************)
(* SpecGraph: every call of the graph, on two process ids and one resource *)
(* id, from the empty graph.                                               *)
(***************************************************************************)
\* the largest instance count handed to add_resource
MaxInstances == 1

ProcessNames == {"P1", "P2"}
ResourceNames == {"R1"}

\* instance counts handed to add_resource: a negative one, zero, and the
\* counts from 1 up
InstanceInputs == {-1} \cup 0..MaxInstances

\* the calls explored stop appending to a holder list that is already one
\* longer than the largest instance count
HoldersBelowCap(resource) ==
    resource \in DOMAIN resource_allocations
        => Len(resource_allocations[resource]) <= MaxInstances

\* the ledger object is exactly self
LedgerIs(self) ==
    /\ n_processes = self.n_processes
    /\ n_resources = self.n_resources
    /\ available = self.available
    /\ max_claim = self.max_claim
    /\ allocation = self.allocation
    /\ need = self.need

\* the graph after construction, beside a ledger no call touches
InitGraph ==
    /\ LedgerIs(Constructor(NProc, NRes))
    /\ MemIs(FirstFitAllocator(MemorySize))
    /\ callers = [t \in Threads |-> Outside]
    /\ RagIs(RagConstructor)
    /\ lastOp = Call("init", <<>>, "ok", FALSE, {})

NextGraph ==
    \/ \E p \in ProcessNames : AddProcess(p)
    \/ \E r \in ResourceNames : \E n \in InstanceInputs : AddResource(r, n)
    \/ \E p \in ProcessNames : \E r \in ResourceNames : RequestEdge(p, r)
    \/ \E p \in ProcessNames : \E r \in ResourceNames :
          HoldersBelowCap(r) /\ AllocationEdge(r, p)
    \/ \E p \in ProcessNames : \E r \in ResourceNames : RemoveRequestEdge(p, r)
    \/ \E p \in ProcessNames : \E r \in ResourceNames :
          RemoveAllocationEdge(r, p)
    \/ DetectDeadlock

SpecGraph == InitGraph /\ [][NextGraph]_vars

(***************************************************************************)
(* Properties of the graph                                                 *)
(***************************************************************************)
\* the step is a call of `op`; its arguments are lastOp'.args
Called(op) == lastOp'.op = op

\* the allocation edges leaving resource r
AllocationEdgesOf(r) ==
    {e \in graph.edges : e[1] = r /\ e[3] = "allocation"}

\* C13: allocation_edge on a resource that already has as many outstanding
\* allocations as instances fails with InstancesExhausted and leaves the
\* edge set and the holders unchanged.
ExhaustedAllocationRefused ==
    [][(/\ Called("allocation_edge")
        /\ lastOp'.args[1] \in resources
        /\ resource_instances[lastOp'.args[1]] >= 1
        /\ Len(resource_allocations[lastOp'.args[1]])
               = resource_instances[lastOp'.args[1]])
       => /\ lastOp'.result = "InstancesExhausted"
          /\ graph'.edges = graph.edges
          /\ resource_allocations' = resource_allocations]_vars

\* C14: for every resource, the allocation edges leaving it, and its holders,
\* number at most its instance count.
HoldersWithinInstances ==
    \A r \in resources :
        /\ Cardinality(AllocationEdgesOf(r)) <= resource_instances[r]
        /\ Len(resource_allocations[r]) <= resource_instances[r]

\* C15: request_edge and allocation_edge fail with UnknownEntity when the
\* process or the resource is not registered, and leave the graph unchanged:
\* no node is registered by the call.
UnknownEndpointRefused ==
    [][(\/ /\ Called("request_edge")
           /\ \/ lastOp'.args[1] \notin processes
              \/ lastOp'.args[2] \notin resources
        \/ /\ Called("allocation_edge")
           /\ \/ lastOp'.args[1] \notin resources
              \/ lastOp'.args[2] \notin processes)
       => /\ lastOp'.result = "UnknownEntity"
          /\ ragVars' = ragVars]_vars

\* C16: add_process and add_resource with an id that is already registered
\* fail with DuplicateEntity and leave the graph unchanged: the instance
\* count and the holders of an existing resource are not reset.
DuplicateRefused ==
    [][(\/ Called("add_process") /\ lastOp'.args[1] \in processes
        \/ Called("add_resource") /\ lastOp'.args[1] \in resources)
       => /\ lastOp'.result = "DuplicateEntity"
          /\ ragVars' = ragVars]_vars

\* C17: add_resource(id, n) with n < 1 fails with InvalidInstanceCount and
\* registers nothing, so every registered resource has an instance count of
\* at least 1.
InstanceCountValidated ==
    [][/\ (Called("add_resource") /\ lastOp'.args[2] < 1)
            => /\ lastOp'.result = "InvalidInstanceCount"
               /\ ragVars' = ragVars
       /\ \A r \in resources' : resource_instances'[r] >= 1]_vars

(***************************************************************************)
(* SpecCycles: the edge calls and detect_deadlock on a graph whose two     *)
(* processes and two resources were registered first, as the fixtures of   *)
(* src/testing do.                                                         *)
(***************************************************************************)
CycleProcesses == {"P1", "P2"}
CycleResources == {"R1", "R2"}

\* add_process for every id of ids
RECURSIVE WithProcesses(_, _)
WithProcesses(rag, ids) ==
    IF ids = {} THEN rag
    ELSE LET id == CHOOSE x \in ids : TRUE
         IN  WithProcesses(add_process(rag, id), ids \ {id})

\* add_resource(id, instances) for every id of ids
RECURSIVE WithResources(_, _, _)
WithResources(rag, ids, instances) ==
    IF ids = {} THEN rag
    ELSE LET id == CHOOSE x \in ids : TRUE
         IN  WithResources(add_resource(rag, id, instances), ids \ {id},
                           instances)

InitCycles ==
    /\ LedgerIs(Constructor(NProc, NRes))
    /\ MemIs(FirstFitAllocator(MemorySize))
    /\ callers = [t \in Threads |-> Outside]
    /\ \E n \in 1..MaxInstances :
          RagIs(WithResources(WithProcesses(RagConstructor, CycleProcesses),
                              CycleResources, n))
    /\ lastOp = Call("init", <<>>, "ok", FALSE, {})

NextCycles ==
    \/ \E p \in CycleProcesses : \E r \in CycleResources : RequestEdge(p, r)
    \/ \E p \in CycleProcesses : \E r \in CycleResources :
          HoldersBelowCap(r) /\ AllocationEdge(r, p)
    \/ \E p \in CycleProcesses : \E r \in CycleResources :
          RemoveRequestEdge(p, r)
    \/ \E p \in CycleProcesses : \E r \in CycleResources :
          RemoveAllocationEdge(r, p)
    \/ DetectDeadlock

SpecCycles == InitCycles /\ [][NextCycles]_vars

(***************************************************************************)
(* Properties of detect_deadlock                                           *)
(***************************************************************************)
\* the last call was detect_deadlock; lastOp holds the pair it returned
Detected == lastOp.op = "detect_deadlock"

\* every list of distinct nodes of the graph
NodeLists ==
    UNION {{s \in [1..k -> graph.nodes] :
               \A i \in 1..k : \A j \in 1..k : s[i] = s[j] => i = j} :
           k \in 1..Cardinality(graph.nodes)}

\* s is a directed cycle of the graph: an edge leads from each node of s to
\* the next, and from the last to the first
IsCycle(s) ==
    \A i \in 1..Len(s) :
        \E e \in graph.edges : e[1] = s[i] /\ e[2] = s[(i % Len(s)) + 1]

\* the nodes of s are in turn a process, a resource, a process, ... or a
\* resource, a process, a resource, ...
Alternates(s) ==
    /\ Len(s) % 2 = 0
    /\ \/ \A i \in 1..Len(s) :
             s[i] \in (IF i % 2 = 1 THEN processes ELSE resources)
       \/ \A i \in 1..Len(s) :
             s[i] \in (IF i % 2 = 1 THEN resources ELSE processes)

\* rel, and the pairs that k more rounds of following one edge of step add
RECURSIVE Closure(_, _, _)
Closure(rel, step, k) ==
    IF k = 0 THEN rel
    ELSE Closure(rel \cup {<<x[1][1], x[2][2]>> :
                              x \in {y \in rel \X step : y[1][2] = y[2][1]}},
                 step, k - 1)

\* the pairs <<u, v>> with a path of one edge or more from u to v
Reaches ==
    LET step == {<<e[1], e[2]>> : e \in graph.edges}
    IN  Closure(step, step, Cardinality(graph.nodes))

ScenarioProcesses == {"P1", "P2", "P3", "P4"}
ScenarioResources == {"R1", "R2", "R3", "R4"}

\* (resource, process) pairs handed to allocation_edge
ScenarioAllocations ==
    {<<"R1", "P1">>, <<"R2", "P2">>, <<"R3", "P3">>, <<"R4", "P4">>}

\* (process, resource) pairs handed to request_edge
ScenarioRequests ==
    {<<"P1", "R2">>, <<"P2", "R3">>, <<"P3", "R4">>, <<"P4", "R1">>}

InitScenario ==
    /\ LedgerIs(Constructor(NProc, NRes))
    /\ MemIs(FirstFitAllocator(MemorySize))
    /\ callers = [t \in Threads |-> Outside]
    /\ RagIs(WithResources(WithProcesses(RagConstructor, ScenarioProcesses),
                           ScenarioResources, 1))
    /\ lastOp = Call("init", <<>>, "ok", FALSE, {})

NextScenario ==
    \/ \E a \in ScenarioAllocations :
          HoldersBelowCap(a[1]) /\ AllocationEdge(a[1], a[2])
    \/ \E q \in ScenarioRequests : RequestEdge(q[1], q[2])
    \/ \E q \in ScenarioRequests : RemoveRequestEdge(q[1], q[2])
    \/ DetectDeadlock

SpecScenario == InitScenario /\ [][NextScenario]_vars

\* the graph holds exactly the four allocations and the four requests
ScenarioBuilt ==
    /\ processes = ScenarioProcesses
    /\ resources = ScenarioResources
    /\ \A r \in resources : resource_instances[r] = 1
    /\ graph.edges = {<<a[1], a[2], "allocation">> : a \in ScenarioAllocations}
                        \cup {<<q[1], q[2], "request">> : q \in ScenarioRequests}

\* C19: with P1..P4, single-instance R1..R4, allocations R1->P1, R2->P2,
\* R3->P3, R4->P4 and requests P1->R2, P2->R3, P3->R4, P4->R1,
\* detect_deadlock returns True and lists exactly one cycle, of 8 nodes
\* alternating process and resource.
ScenarioHasOneCycle ==
    (Detected /\ ScenarioBuilt) =>
        /\ lastOp.has_deadlock
        /\ Cardinality(lastOp.deadlock_cycles) = 1
        /\ \A c \in lastOp.deadlock_cycles :
              /\ Len(c) = 8
              /\ NodesOf(c) = ScenarioProcesses \cup ScenarioResources
              /\ Alternates(c)
              /\ IsCycle(c)

\* C19 witness: detect_deadlock has run on the full scenario.
ScenarioDetectedReached == Detected /\ ScenarioBuilt

\* The graph object after the step.
RagAfter ==
    [graph |-> graph', processes |-> processes', resources |-> resources',
     resource_instances |-> resource_instances',
     resource_allocations |-> resource_allocations']

\* the edge from u to v lies on the cycle
OnCycle(cycle, u, v) ==
    \E i \in 1..Len(cycle) : cycle[i] = u /\ cycle[(i % Len(cycle)) + 1] = v

\* rag has exactly one cycle, and the request edge from process to resource
\* lies on it
OnlyCycleThrough(rag, process, resource) ==
    /\ <<process, resource, "request">> \in rag.graph.edges
    /\ Cardinality(detect_deadlock(rag).deadlock_cycles) = 1
    /\ \A c \in detect_deadlock(rag).deadlock_cycles :
          OnCycle(c, process, resource)

\* C20: when the graph has exactly one cycle, remove_request_edge of any one
\* request edge on that cycle makes the next detect_deadlock return False.
RemovalBreaksOnlyCycle ==
    [][(/\ Called("remove_request_edge")
        /\ OnlyCycleThrough(Rag, lastOp'.args[1], lastOp'.args[2]))
       => ~detect_deadlock(RagAfter).has_deadlock]_vars

\* C20 witness: remove_request_edge has taken a request edge off the only
\* cycle of the graph, a cycle through both processes and both resources.
OnlyCycleBrokenReached ==
    /\ lastOp.op = "remove_request_edge"
    /\ ~has_edge(graph, lastOp.args[1], lastOp.args[2])
    /\ ~detect_deadlock(Rag).has_deadlock
    /\ OnlyCycleThrough(request_edge(Rag, lastOp.args[1], lastOp.args[2]),
                        lastOp.args[1], lastOp.args[2])
    /\ \A c \in detect_deadlock(request_edge(Rag, lastOp.args[1],
                                             lastOp.args[2])).deadlock_cycles :
          Len(c) = 4

(***************************************************************************)
(* SpecConfigurations: the edge calls and detect_deadlock on two processes *)
(* and two resources registered with the instance counts of                *)
(* test_various_resource_configurations.                                   *)
(***************************************************************************)
\* the instance counts the test registers R1 and R2 with
TestedConfigurations ==
    {[R1 |-> 1, R2 |-> 1], [R1 |-> 2, R2 |-> 2], [R1 |-> 3, R2 |-> 1]}

\* add_resource(id, counts[id]) for every id of ids
RECURSIVE WithResourceCounts(_, _, _)
WithResourceCounts(rag, ids, counts) ==
    IF ids = {} THEN rag
    ELSE LET id == CHOOSE x \in ids : TRUE
         IN  WithResourceCounts(add_resource(rag, id, counts[id]),
                                ids \ {id}, counts)

InitConfigurations ==
    /\ LedgerIs(Constructor(NProc, NRes))
    /\ MemIs(FirstFitAllocator(MemorySize))
    /\ callers = [t \in Threads |-> Outside]
    /\ \E counts \in TestedConfigurations :
          RagIs(WithResourceCounts(
                    WithProcesses(RagConstructor, CycleProcesses),
                    DOMAIN counts, counts))
    /\ lastOp = Call("init", <<>>, "ok", FALSE, {})

SpecConfigurations == InitConfigurations /\ [][NextCycles]_vars

\* the circular wait of the test: R1 -> P1, R2 -> P2, P1 -> R2, P2 -> R1,
\* each allocation made once
CircularWaitBuilt ==
    /\ graph.edges = {<<"R1", "P1", "allocation">>, <<"R2", "P2", "allocation">>,
                      <<"P1", "R2", "request">>, <<"P2", "R1", "request">>}
    /\ resource_allocations = [R1 |-> <<"P1">>, R2 |-> <<"P2">>]

\* C21: for the circular wait R1 -> P1, R2 -> P2, P1 -> R2, P2 -> R1,
\* detect_deadlock returns False when every resource of the cycle still has
\* an unallocated instance and True when some resource of the cycle has all
\* its instances allocated.
DetectCountsInstances ==
    (Detected /\ CircularWaitBuilt) =>
        (lastOp.has_deadlock
            <=> \E r \in resources :
                   Len(resource_allocations[r]) >= resource_instances[r])

(***************************************************************************)
(* Graph reduction: the deadlock test the cycle search is measured         *)
(* against.  A process can run to its end when every resource it requests  *)
(* has an instance that no remaining process holds; it then leaves and     *)
(* gives back what it holds.                                               *)
(***************************************************************************)
\* the resources process p has a request edge to
RequestsOf(p) ==
    {e[2] : e \in {x \in graph.edges : x[1] = p /\ x[3] = "request"}}

\* the instances of r held by the processes of S
HeldBy(r, S) ==
    Cardinality({k \in 1..Len(resource_allocations[r]) :
                    resource_allocations[r][k] \in S})

\* p can run to its end while the processes of S hold what they hold
Removable(p, S) ==
    \A r \in RequestsOf(p) : HeldBy(r, S) < resource_instances[r]

\* the processes of S that reduction cannot remove
RECURSIVE Reduced(_)
Reduced(S) ==
    IF \E p \in S : Removable(p, S)
    THEN Reduced(S \ {CHOOSE p \in S : Removable(p, S)})
    ELSE S

\* every holder list agrees with the allocation edges: a process is in the
\* list of r once if there is an edge from r to it, and not at all otherwise
HoldersMatchEdges ==
    \A r \in resources : \A p \in processes :
        HeldBy(r, {p}) = IF <<r, p, "allocation">> \in graph.edges THEN 1 ELSE 0

\* every resource has one instance and at most one allocation edge
SingleInstanceGraph ==
    /\ HoldersMatchEdges
    /\ \A r \in resources :
          /\ resource_instances[r] = 1
          /\ Cardinality(AllocationEdgesOf(r)) <= 1

\* the graph respects the instance counts, each at least 1
RespectsInstanceCounts ==
    /\ HoldersMatchEdges
    /\ \A r \in resources :
          /\ resource_instances[r] >= 1
          /\ Cardinality(AllocationEdgesOf(r)) <= resource_instances[r]

\* C22: on every graph whose resources have one instance and at most one
\* allocation edge each, detect_deadlock returns True iff reduction cannot
\* remove every process.
CycleIffDeadlockSingleInstance ==
    (Detected /\ SingleInstanceGraph) =>
        (lastOp.has_deadlock <=> Reduced(processes) # {})

\* C22 witness: detect_deadlock has run on a single-instance graph where
\* reduction removes neither process, and reported a cycle through both.
CircularWaitDetectedReached ==
    /\ Detected
    /\ SingleInstanceGraph
    /\ Reduced(processes) = CycleProcesses
    /\ \E c \in lastOp.deadlock_cycles : Len(c) = 4

\* C23: on every graph that respects its instance counts, each at least 1,
\* detect_deadlock returns True whenever reduction leaves a process blocked
\* (no false negative); a reported cycle need not be a deadlock.
NoFalseNegative ==
    (Detected /\ RespectsInstanceCounts /\ Reduced(processes) # {})
        => lastOp.has_deadlock

\* C23 witness: a false positive: detect_deadlock has returned True on a
\* graph that respects its instance counts, has a resource of more than one
\* instance, and from which reduction removes every process.
FalsePositiveReached ==
    /\ Detected
    /\ RespectsInstanceCounts
    /\ \E r \in resources : resource_instances[r] > 1
    /\ lastOp.has_deadlock
    /\ Reduced(processes) = {}

(***************************************************************************)
(* Properties of the edge calls                                            *)
(***************************************************************************)
\* the edges of the graph from u to v
EdgesBetween(g, u, v) == {e \in g.edges : e[1] = u /\ e[2] = v}

\* C24: request_edge(p, r) when the request edge p -> r already exists
\* leaves the graph exactly as it was and raises nothing, and there is never
\* more than one request edge for a (process, resource) pair.
RequestEdgeIdempotent ==
    [][/\ (/\ Called("request_edge")
           /\ <<lastOp'.args[1], lastOp'.args[2], "request">> \in graph.edges)
          => /\ ragVars' = ragVars
             /\ lastOp'.result = "ok"
       /\ \A u \in graph'.nodes : \A v \in graph'.nodes :
             Cardinality(EdgesBetween(graph', u, v)) <= 1]_vars

\* C24 witness: request_edge has returned on a request edge whose resource
\* is held by the other process.
RepeatedRequestReached ==
    /\ lastOp.op = "request_edge"
    /\ <<lastOp.args[1], lastOp.args[2], "request">> \in graph.edges
    /\ resource_instances[lastOp.args[2]] = 1
    /\ \E q \in processes \ {lastOp.args[1]} :
          resource_allocations[lastOp.args[2]] = <<q>>

\* the holders of r after the step, p counted
HeldAfter(r, p) ==
    Cardinality({k \in 1..Len(resource_allocations'[r]) :
                    resource_allocations'[r][k] = p})

\* C25: remove_request_edge and remove_allocation_edge leave the whole graph
\* unchanged when the named edge does not exist; remove_allocation_edge(r, p)
\* on an existing allocation returns normally, takes exactly one p off the
\* holders of r, and changes no other edge and no other holder.
RemovalFrame ==
    [][/\ (/\ Called("remove_request_edge")
           /\ ~has_edge(graph, lastOp'.args[1], lastOp'.args[2]))
          => ragVars' = ragVars
       /\ (/\ Called("remove_allocation_edge")
           /\ ~has_edge(graph, lastOp'.args[1], lastOp'.args[2]))
          => ragVars' = ragVars
       /\ (/\ Called("remove_allocation_edge")
           /\ <<lastOp'.args[1], lastOp'.args[2], "allocation">> \in graph.edges)
          => /\ lastOp'.result = "ok"
             /\ HeldAfter(lastOp'.args[1], lastOp'.args[2])
                   = HeldBy(lastOp'.args[1], {lastOp'.args[2]}) - 1
             /\ \A q \in processes \ {lastOp'.args[2]} :
                   HeldAfter(lastOp'.args[1], q) = HeldBy(lastOp'.args[1], {q})
             /\ \A r \in resources \ {lastOp'.args[1]} :
                   resource_allocations'[r] = resource_allocations[r]
             /\ graph.edges \ graph'.edges
                   \subseteq {<<lastOp'.args[1], lastOp'.args[2], "allocation">>}
             /\ graph'.edges \subseteq graph.edges]_vars

\* the allocation edges from r to p; a DiGraph holds one at most
AllocationEdgesTo(r, p) ==
    {e \in graph.edges : e[1] = r /\ e[2] = p /\ e[3] = "allocation"}

\* C26: one allocation edge per held instance: for every resource r and
\* process p, p occurs among the holders of r as many times as there are
\* allocation edges r -> p.
EdgePerHeldInstance ==
    \A r \in resources : \A p \in processes :
        HeldBy(r, {p}) = Cardinality(AllocationEdgesTo(r, p))

\* C27: both endpoints of every edge are registered: a request edge leads
\* from a process to a resource, an allocation edge from a resource to a
\* process.
EndpointsRegistered ==
    \A e \in graph.edges :
        /\ e[3] = "request" => e[1] \in processes /\ e[2] \in resources
        /\ e[3] = "allocation" => e[1] \in resources /\ e[2] \in processes
        /\ e[3] \in {"request", "allocation"}
        /\ {e[1], e[2]} \subseteq graph.nodes

\* C27 witness: request_edge and allocation_edge have registered every node
\* there is: no add_process or add_resource call can have come before the
\* first of them, and the graph has edges of both types.
AutoRegisteredReached ==
    /\ lastOp.op \in {"request_edge", "allocation_edge"}
    /\ \E e \in graph.edges : e[3] = "request"
    /\ \E e \in graph.edges : e[3] = "allocation"
    /\ Cardinality(processes) = 2
    /\ \A r \in resources : resource_instances[r] = 1

(***************************************************************************)
(* SpecSharedIds: add_process, add_resource, request_edge and              *)
(* allocation_edge called with any id in either place.  Ids are plain      *)
(* strings: nothing in a call says whether "P1" names a process or a       *)
(* resource.                                                               *)
(***************************************************************************)
SharedIds == {"P1", "R1"}

NextSharedIds ==
    \/ \E id \in SharedIds : AddProcess(id)
    \/ \E id \in SharedIds : \E n \in 1..MaxInstances : AddResource(id, n)
    \/ \E process \in SharedIds : \E resource \in SharedIds :
          RequestEdge(process, resource)
    \/ \E process \in SharedIds : \E resource \in SharedIds :
          HoldersBelowCap(resource) /\ AllocationEdge(resource, process)

SpecSharedIds == InitGraph /\ [][NextSharedIds]_vars

\* C28: the node set is partitioned: no id is at the same time in processes
\* and in resources.
NodesPartitioned == processes \cap resources = {}

\* C29: detect_deadlock is read-only: a call leaves the node sets, the
\* instance counts, the holders and the edges unchanged, and a call that
\* directly follows another returns the same boolean and the same cycles.
DetectIsReadOnly ==
    [][Called("detect_deadlock")
          => /\ ragVars' = ragVars
             /\ Detected
                   => /\ lastOp'.has_deadlock = lastOp.has_deadlock
                      /\ lastOp'.deadlock_cycles = lastOp.deadlock_cycles]_vars

\* C29 witness: detect_deadlock has returned cycles, and every edge of every
\* cycle it returned is in the graph.
CyclesLeftInPlaceReached ==
    /\ Detected
    /\ lastOp.deadlock_cycles # {}
    /\ \A c \in lastOp.deadlock_cycles : IsCycle(c)

(***************************************************************************)
(* Termination of the ledger's calls                                       *)
(***************************************************************************)
\* C30: is_safe terminates: each pass of its while loop finishes one process
\* that was not finished yet or is the last pass, so it makes at most
\* n_processes + 1 passes, from any ledger; and request_resources always
\* returns, granted or denied, without waiting.
IsSafeTerminates ==
    /\ is_safe(Self).passes <= n_processes + 1
    /\ lastOp.op = "is_safe" =>
          /\ lastOp.passes = Len(lastOp.safe_sequence) + 1
          /\ lastOp.passes <= n_processes + 1
          /\ \A i \in 1..Len(lastOp.safe_sequence) :
                \A j \in 1..Len(lastOp.safe_sequence) :
                    lastOp.safe_sequence[i] = lastOp.safe_sequence[j] => i = j
    /\ Requested =>
          lastOp.result \in {"Granted", "ExceedsNeed", "InsufficientAvailable",
                             "WouldBeUnsafe"}

\* C30 witness: is_safe has made the most passes it can: one for each
\* process and the last one, with not every process holding nothing.
MostPassesReached ==
    /\ lastOp.op = "is_safe"
    /\ lastOp.passes = n_processes + 1
    /\ allocation # ZeroMat(n_processes, n_resources)

(***************************************************************************)
(* Completeness of the greedy safety loop                                  *)
(***************************************************************************)
\* the orderings of all processes in which every process's need row fits in
\* available plus the allocation rows of the processes before it
SafeOrderings ==
    {seq \in [1..n_processes -> ProcessIds] :
        /\ \A j, k \in 1..n_processes : seq[j] = seq[k] => j = k
        /\ \A k \in 1..n_processes : \A r \in 1..n_resources :
               need[seq[k] + 1][r] <= WorkBefore(seq, k)[r]}

AllocationNonNegative ==
    \A p \in 1..n_processes : \A r \in 1..n_resources : allocation[p][r] >= 0

\* C31: in every ledger state with non-negative allocation, is_safe returns
\* true iff some ordering of all processes lets each process's need row fit
\* in available plus the allocation rows of the processes before it; taking
\* the lowest index first never misses such an ordering.
GreedyIsComplete ==
    AllocationNonNegative => (SafeNow <=> SafeOrderings # {})

\* C31 witness: is_safe reported safe in a state that has a safe ordering
\* other than the one it followed, with units held by some process.
SeveralSafeOrderingsReached ==
    /\ lastOp.op = "is_safe"
    /\ lastOp.result = "safe"
    /\ AllocationNonNegative
    /\ \E seq \in SafeOrderings :
           /\ seq # lastOp.safe_sequence
           /\ seq[1] > lastOp.safe_sequence[1]
    /\ \E p \in 1..n_processes : allocation[p] # ZeroVec(n_resources)

(***************************************************************************)
(* SpecRequests: a ledger configured within its claims, then only          *)
(* request_resources calls.                                                *)
(***************************************************************************)
\* the ledger after set_available, set_max_claim and set_allocation with an
\* allocation that stays within the maximum claims
InitRequests ==
    \E v \in AvailableInputs(NRes) : \E m \in MaxClaimInputs(NProc, NRes) :
        \E a \in AllocationInputs(NProc, NRes) :
            /\ \A p \in 1..NProc : AllLeq(a[p], m[p])
            /\ InitAs(set_allocation(
                          set_max_claim(
                              set_available(Constructor(NProc, NRes), v), m), a))

NextRequests ==
    \E p \in 0..(n_processes - 1) : \E req \in RequestInputs(n_resources) :
        RequestResources(p, req)

SpecRequests == InitRequests /\ [][NextRequests]_vars

\* C32: from a ledger with available >= 0 and 0 <= allocation <= max_claim,
\* every sequence of request_resources calls with non-negative request
\* vectors keeps available[r] >= 0, 0 <= allocation[p][r] <= max_claim[p][r]
\* and need[p][r] >= 0 in every state, after denied calls too.
LedgerWithinBounds ==
    /\ \A r \in 1..n_resources : available[r] >= 0
    /\ \A p \in 1..n_processes : \A r \in 1..n_resources :
           /\ 0 <= allocation[p][r]
           /\ allocation[p][r] <= max_claim[p][r]
           /\ need[p][r] >= 0

\* C32 witness: a request for units was rolled back as unsafe on a ledger
\* where some process holds units and some units are still available.
DeniedWithinBoundsReached ==
    /\ Denied
    /\ lastOp.result = "WouldBeUnsafe"
    /\ lastOp.arg # ZeroVec(n_resources)
    /\ \E p \in 1..n_processes : allocation[p] # ZeroVec(n_resources)
    /\ \E r \in 1..n_resources : available[r] > 0

(***************************************************************************)
(* MemoryAllocator (src/memory_allocation.py).  blocks is the Python list  *)
(* of MemoryBlock objects; index i of the code is position i + 1.          *)
(***************************************************************************)
\* the allocator object
Mem ==
    [memory_size |-> memory_size, blocks |-> blocks,
     algorithm_name |-> algorithm_name, stats |-> stats]

\* self.blocks.pop(i + 1) after current_block.size += next_block.size
\* (lines 120-121), i being the 0-based index of current_block
MergeAt(bs, i) ==
    SubSeq(bs, 1, i)
        \o <<[bs[i + 1] EXCEPT !.size = bs[i + 1].size + bs[i + 2].size]>>
        \o SubSeq(bs, i + 3, Len(bs))

\* Mutant of merge_from: after a merge the loop moves on to the next index.
RECURSIVE merge_from_moves_on(_, _)
merge_from_moves_on(bs, i) ==
    IF i >= Len(bs) - 1 THEN bs
    ELSE IF is_free(bs[i + 1]) /\ is_free(bs[i + 2])
    THEN merge_from_moves_on(MergeAt(bs, i), i + 1)
    ELSE merge_from_moves_on(bs, i + 1)

\* The while loop of _merge_adjacent_free_blocks from index i on
\* (lines 114-123): after a merge i stays, otherwise it moves on.
RECURSIVE merge_from(_, _)
merge_from(bs, i) ==
    IF i >= Len(bs) - 1 THEN bs
    ELSE IF is_free(bs[i + 1]) /\ is_free(bs[i + 2])
    THEN merge_from(MergeAt(bs, i), i)
    ELSE merge_from(bs, i + 1)

\* _merge_adjacent_free_blocks (lines 111-123)
merge_adjacent_free_blocks(bs) == merge_from(bs, 0)

\* Mutants of deallocate: only the first block of the process is freed; the
\* freed blocks are not merged with their neighbours; the counter goes up by
\* one for every block freed.
deallocate_first_block_only(self, process_id) ==
    LET owned == {k \in 1..Len(self.blocks) :
                      self.blocks[k].process_id = process_id}
        first == CHOOSE k \in owned : \A j \in owned : k <= j
        freed == [self.blocks EXCEPT ![first].process_id = None]
    IN  IF owned # {}
        THEN [self |-> [self EXCEPT
                           !.blocks = merge_adjacent_free_blocks(freed),
                           !.stats.deallocations = @ + 1],
              result |-> TRUE]
        ELSE [self |-> self, result |-> FALSE]

deallocate_without_merge(self, process_id) ==
    LET freed == [k \in 1..Len(self.blocks) |->
                     IF self.blocks[k].process_id = process_id
                     THEN [self.blocks[k] EXCEPT !.process_id = None]
                     ELSE self.blocks[k]]
        deallocated == \E k \in 1..Len(self.blocks) :
                           self.blocks[k].process_id = process_id
    IN  IF deallocated
        THEN [self |-> [self EXCEPT !.blocks = freed,
                                    !.stats.deallocations = @ + 1],
              result |-> TRUE]
        ELSE [self |-> self, result |-> FALSE]

\* deallocate (lines 82-109): every block of the process is marked free
\* (lines 96-100); if there was one, the counter goes up by one and the
\* adjacent free blocks are merged (lines 102-104).
deallocate(self, process_id) ==
    LET freed == [k \in 1..Len(self.blocks) |->
                     IF self.blocks[k].process_id = process_id
                     THEN [self.blocks[k] EXCEPT !.process_id = None]
                     ELSE self.blocks[k]]
        deallocated == \E k \in 1..Len(self.blocks) :
                           self.blocks[k].process_id = process_id
    IN  IF deallocated
        THEN [self |-> [self EXCEPT
                           !.blocks = merge_adjacent_free_blocks(freed),
                           !.stats.deallocations = @ + 1],
              result |-> TRUE]
        ELSE [self |-> self, result |-> FALSE]

\* The search of FirstFitAllocator.allocate from index i on (lines 268-269):
\* the first free block with block.size >= size, or -1 when the loop ends.
RECURSIVE first_fit_idx(_, _, _)
first_fit_idx(bs, size, i) ==
    IF i >= Len(bs) THEN -1
    ELSE IF is_free(bs[i + 1]) /\ bs[i + 1].size >= size THEN i
    ELSE first_fit_idx(bs, size, i + 1)

\* The search of BestFitAllocator.allocate from index i on (lines 316-324).
\* best_fit_size starts at float('inf'), which every block size is below:
\* that is the case best_fit_idx = -1.
RECURSIVE best_fit_idx(_, _, _, _, _)
best_fit_idx(bs, size, i, best_idx, best_size) ==
    IF i >= Len(bs) THEN best_idx
    ELSE IF /\ is_free(bs[i + 1]) /\ bs[i + 1].size >= size
            /\ (best_idx = -1 \/ bs[i + 1].size < best_size)
    THEN best_fit_idx(bs, size, i + 1, i, bs[i + 1].size)
    ELSE best_fit_idx(bs, size, i + 1, best_idx, best_size)

\* The search of WorstFitAllocator.allocate from index i on (lines 375-383).
RECURSIVE worst_fit_idx(_, _, _, _, _)
worst_fit_idx(bs, size, i, worst_idx, worst_size) ==
    IF i >= Len(bs) THEN worst_idx
    ELSE IF /\ is_free(bs[i + 1]) /\ bs[i + 1].size >= size
            /\ bs[i + 1].size > worst_size
    THEN worst_fit_idx(bs, size, i + 1, i, bs[i + 1].size)
    ELSE worst_fit_idx(bs, size, i + 1, worst_idx, worst_size)

\* Mutant of search: every class searches as First Fit does.
search_first_fit_always(self, size) == first_fit_idx(self.blocks, size, 0)

\* the index the allocate of the object's class settles on, -1 for none
search(self, size) ==
    IF self.algorithm_name = "First Fit"
    THEN first_fit_idx(self.blocks, size, 0)
    ELSE IF self.algorithm_name = "Best Fit"
    THEN best_fit_idx(self.blocks, size, 0, -1, -1)
    ELSE worst_fit_idx(self.blocks, size, 0, -1, -1)

\* Mutant of place: the remainder of a split block starts at the block's own
\* start.
place_remainder_at_start(bs, i, process_id, size) ==
    LET block == bs[i + 1]
    IN  IF block.size = size
        THEN [bs EXCEPT ![i + 1].process_id = process_id]
        ELSE SubSeq(bs, 1, i)
                 \o <<MemoryBlock(block.start, size, process_id),
                      MemoryBlock(block.start, block.size - size, None)>>
                 \o SubSeq(bs, i + 2, Len(bs))

\* The block at index i goes to the process (lines 271-279, 330-338,
\* 389-397): whole on a perfect fit, otherwise its first `size` units, with
\* the rest inserted as a free block at index i + 1.
place(bs, i, process_id, size) ==
    LET block == bs[i + 1]
    IN  IF block.size = size
        THEN [bs EXCEPT ![i + 1].process_id = process_id]
        ELSE SubSeq(bs, 1, i)
                 \o <<MemoryBlock(block.start, size, process_id),
                      MemoryBlock(block.start + size, block.size - size, None)>>
                 \o SubSeq(bs, i + 2, Len(bs))

\* Mutant of allocate: a failed search is not counted.
allocate_uncounted_failure(self, process_id, size) ==
    LET i == search(self, size)
    IN  IF i # -1
        THEN [self |-> [self EXCEPT
                           !.blocks = place(self.blocks, i, process_id, size),
                           !.stats.allocations = @ + 1],
              result |-> TRUE]
        ELSE [self |-> self, result |-> FALSE]

\* allocate of the three subclasses (lines 254-292, 303-351, 362-410)
allocate(self, process_id, size) ==
    LET i == search(self, size)
    IN  IF i # -1
        THEN [self |-> [self EXCEPT
                           !.blocks = place(self.blocks, i, process_id, size),
                           !.stats.allocations = @ + 1],
              result |-> TRUE]
        ELSE [self |-> [self EXCEPT !.stats.allocation_failures = @ + 1],
              result |-> FALSE]

\* what the last call on the allocator was and returned, the block list it
\* found, the allocate calls made so far, and the call before it
MemCall(op, process_id, size, result, blocks_before, allocate_calls, previous) ==
    [op |-> op, process_id |-> process_id, size |-> size, result |-> result,
     blocks_before |-> blocks_before, allocate_calls |-> allocate_calls,
     previous |-> previous]

\* a call as the next call remembers it
Earlier(call) ==
    [op |-> call.op, process_id |-> call.process_id, result |-> call.result,
     blocks_before |-> call.blocks_before]

NoCall ==
    [op |-> "none", process_id |-> None, result |-> FALSE,
     blocks_before |-> <<>>]

\* The record `mem` becomes the next state of the allocator object.
MemBecomes(mem, op) ==
    /\ memory_size' = mem.memory_size
    /\ blocks' = mem.blocks
    /\ algorithm_name' = mem.algorithm_name
    /\ stats' = mem.stats
    /\ lastOp' = op
    /\ UNCHANGED <<n_processes, n_resources, available, max_claim,
                   allocation, need, callers, ragVars>>

Allocate(process_id, size) ==
    /\ lastOp.allocate_calls + stats.deallocations < MaxCalls
    /\ LET out == allocate(Mem, process_id, size)
       IN  MemBecomes(out.self,
                      MemCall("allocate", process_id, size, out.result,
                              blocks, lastOp.allocate_calls + 1,
                              Earlier(lastOp)))

Deallocate(process_id) ==
    /\ lastOp.allocate_calls + stats.deallocations < MaxCalls
    /\ LET out == deallocate(Mem, process_id)
       IN  MemBecomes(out.self,
                      MemCall("deallocate", process_id, 0, out.result,
                              blocks, lastOp.allocate_calls, Earlier(lastOp)))

(***************************************************************************)
(* SpecMemory: one allocator of MemorySize units, of any of the three      *)
(* classes, under allocate and deallocate calls.                           *)
(***************************************************************************)
MemoryProcesses == {"P1", "P2"}

RequestSizes == 1..MaxRequest

InitMemory ==
    /\ LedgerIs(Constructor(NProc, NRes))
    /\ callers = [t \in Threads |-> Outside]
    /\ RagIs(RagConstructor)
    /\ \E mem \in {FirstFitAllocator(MemorySize), BestFitAllocator(MemorySize),
                   WorstFitAllocator(MemorySize)} : MemIs(mem)
    /\ lastOp = MemCall("init", None, 0, TRUE, <<>>, 0, NoCall)

NextMemory ==
    \/ \E pid \in MemoryProcesses : \E size \in RequestSizes :
          Allocate(pid, size)
    \/ \E pid \in MemoryProcesses : Deallocate(pid)

SpecMemory == InitMemory /\ [][NextMemory]_vars

(***************************************************************************)
(* Properties of the block list                                            *)
(***************************************************************************)
RECURSIVE SumOfSizes(_)
SumOfSizes(bs) ==
    IF bs = <<>> THEN 0 ELSE Head(bs).size + SumOfSizes(Tail(bs))

Allocated == lastOp.op = "allocate" /\ lastOp.result

Deallocated == lastOp.op = "deallocate" /\ lastOp.result

\* C33: after any sequence of allocate calls with positive sizes and
\* deallocate calls, on each of the three allocators, the block list tiles
\* the memory: the first block starts at 0, every other block starts where
\* the block before it ends, every block has size > 0 and the sizes add up
\* to memory_size.
BlocksTileMemory ==
    /\ Len(blocks) >= 1
    /\ blocks[1].start = 0
    /\ \A k \in 2..Len(blocks) :
           blocks[k].start = blocks[k - 1].start + blocks[k - 1].size
    /\ \A k \in 1..Len(blocks) : blocks[k].size > 0
    /\ SumOfSizes(blocks) = memory_size

\* C33 witness: an allocate split a free block that lies between two
\* allocated blocks and left a remainder.
SplitBetweenBlocksReached ==
    /\ Allocated
    /\ Len(blocks) = Len(lastOp.blocks_before) + 1
    /\ \E k \in 2..(Len(blocks) - 2) :
           /\ ~is_free(blocks[k - 1])
           /\ blocks[k].process_id = lastOp.process_id
           /\ is_free(blocks[k + 1])
           /\ ~is_free(blocks[k + 2])

\* C34: in every state reachable by allocate and deallocate calls no two
\* neighbouring blocks are both free.
NoAdjacentFreeBlocks ==
    \A k \in 1..(Len(blocks) - 1) :
        ~(is_free(blocks[k]) /\ is_free(blocks[k + 1]))

\* C34 witness: a deallocate merged more than two blocks into one.
RunMergedReached ==
    /\ Deallocated
    /\ Len(blocks) <= Len(lastOp.blocks_before) - 2
    /\ \E k \in 1..Len(blocks) : ~is_free(blocks[k])

\* the free blocks of bs that can take `size` units
Fitting(bs, size) ==
    {k \in 1..Len(bs) : is_free(bs[k]) /\ bs[k].size >= size}

FreeBlocks(bs) == {k \in 1..Len(bs) : is_free(bs[k])}

\* the block of bs the policy `name` is said to pick for `size` units
Chosen(name, bs, size) ==
    IF name = "First Fit"
    THEN {k \in Fitting(bs, size) :
             \A j \in Fitting(bs, size) : bs[k].start <= bs[j].start}
    ELSE IF name = "Best Fit"
    THEN {k \in Fitting(bs, size) :
             \A j \in Fitting(bs, size) :
                 \/ bs[k].size < bs[j].size
                 \/ bs[k].size = bs[j].size /\ bs[k].start <= bs[j].start}
    ELSE {k \in FreeBlocks(bs) :
             \A j \in FreeBlocks(bs) :
                 \/ bs[k].size > bs[j].size
                 \/ bs[k].size = bs[j].size /\ bs[k].start <= bs[j].start}

\* bs with the first `size` units of block k given to process_id and the
\* rest of the block, if any, left free directly after them
PlacedIn(bs, k, process_id, size) ==
    SubSeq(bs, 1, k - 1)
        \o <<[start |-> bs[k].start, size |-> size, process_id |-> process_id]>>
        \o (IF bs[k].size > size
            THEN <<[start |-> bs[k].start + size, size |-> bs[k].size - size,
                    process_id |-> None]>>
            ELSE <<>>)
        \o SubSeq(bs, k + 1, Len(bs))

\* C35: a successful allocate(pid, size) places the process in the
\* lowest-address free block with size >= the request under First Fit, in
\* the smallest such block (the lowest-address one among equals) under Best
\* Fit, in the largest free block (the lowest-address one among equals)
\* under Worst Fit; the process gets the first `size` units of that block
\* and the remainder, if any, stays free directly after it.
PlacementFollowsPolicy ==
    Allocated =>
        LET before == lastOp.blocks_before
            picks == Chosen(algorithm_name, before, lastOp.size)
        IN  /\ Cardinality(picks) = 1
            /\ \A k \in picks :
                   blocks = PlacedIn(before, k, lastOp.process_id, lastOp.size)

\* C35 witness: Best Fit split a block that is neither the lowest-address
\* fitting block nor the largest free block.
BestFitChoiceReached ==
    /\ Allocated
    /\ algorithm_name = "Best Fit"
    /\ Len(blocks) = Len(lastOp.blocks_before) + 1
    /\ \E k \in Chosen("Best Fit", lastOp.blocks_before, lastOp.size) :
           /\ k \notin Chosen("First Fit", lastOp.blocks_before, lastOp.size)
           /\ k \notin Chosen("Worst Fit", lastOp.blocks_before, lastOp.size)

\* C36: allocate(pid, size) returns False exactly when no free block has
\* size >= the request; the block list is then unchanged and
\* allocation_failures grows by one; otherwise allocations grows by one; so
\* allocations + allocation_failures is always the number of allocate calls
\* made.
AllocateCallsCounted ==
    /\ [](stats.allocations + stats.allocation_failures = lastOp.allocate_calls)
    /\ [][lastOp'.op = "allocate" =>
            /\ lastOp'.result \in BOOLEAN
            /\ ~lastOp'.result <=> Fitting(blocks, lastOp'.size) = {}
            /\ ~lastOp'.result =>
                   /\ blocks' = blocks
                   /\ stats'.allocation_failures = stats.allocation_failures + 1
                   /\ stats'.allocations = stats.allocations
            /\ lastOp'.result =>
                   /\ stats'.allocations = stats.allocations + 1
                   /\ stats'.allocation_failures = stats.allocation_failures]_vars

\* the units of the free blocks of bs
FreeUnits(bs) ==
    SumOfSizes([k \in 1..Len(bs) |->
                   IF is_free(bs[k]) THEN bs[k] ELSE [bs[k] EXCEPT !.size = 0]])

\* C36 witness: an allocate failed although the free units together would
\* have covered the request, after an earlier allocate had succeeded.
FragmentedFailureReached ==
    /\ lastOp.op = "allocate"
    /\ ~lastOp.result
    /\ FreeUnits(blocks) >= lastOp.size
    /\ stats.allocations >= 1
    /\ stats.allocation_failures >= 1

\* the blocks of bs owned by process_id
OwnedBy(bs, process_id) ==
    {k \in 1..Len(bs) : bs[k].process_id = process_id}

\* the blocks of bs owned by a process other than process_id
OthersBlocks(bs, process_id) ==
    {bs[k] : k \in {j \in 1..Len(bs) :
                        ~is_free(bs[j]) /\ bs[j].process_id # process_id}}

\* C37: deallocate(pid) frees every block owned by pid, returns True and adds
\* one to deallocations; when pid owns no block it returns False and leaves
\* the block list and the counters as they were; the blocks of the other
\* processes keep start, size and owner in both cases.
DeallocateFreesOwnBlocks ==
    [][lastOp'.op = "deallocate" =>
          LET pid == lastOp'.process_id
          IN  /\ OwnedBy(blocks, pid) # {} =>
                     /\ lastOp'.result = TRUE
                     /\ stats'.deallocations = stats.deallocations + 1
                     /\ OwnedBy(blocks', pid) = {}
                     /\ \A k \in OwnedBy(blocks, pid) :
                            \E j \in 1..Len(blocks') :
                                /\ blocks'[j].process_id = None
                                /\ blocks'[j].start <= blocks[k].start
                                /\ blocks[k].start + blocks[k].size
                                       <= blocks'[j].start + blocks'[j].size
              /\ OwnedBy(blocks, pid) = {} =>
                     /\ lastOp'.result = FALSE
                     /\ blocks' = blocks
                     /\ stats' = stats
              /\ OthersBlocks(blocks', pid) = OthersBlocks(blocks, pid)]_vars

\* C37 witness: a deallocate freed two blocks of one process that are not
\* neighbours, with a block of another process in the list.
SeveralBlocksFreedReached ==
    /\ Deallocated
    /\ \E j, k \in OwnedBy(lastOp.blocks_before, lastOp.process_id) : k > j + 1
    /\ OthersBlocks(blocks, lastOp.process_id) # {}
    /\ stats.deallocations = 1

\* a successful allocate for a process that owned no block, directly
\* followed by a deallocate of that process
RoundTrip ==
    /\ lastOp.op = "deallocate"
    /\ lastOp.previous.op = "allocate"
    /\ lastOp.previous.result
    /\ lastOp.previous.process_id = lastOp.process_id
    /\ OwnedBy(lastOp.previous.blocks_before, lastOp.process_id) = {}

\* C38: in a reachable state where pid owns no block, a successful
\* allocate(pid, size) directly followed by deallocate(pid) leaves the block
\* list (starts, sizes and owners) exactly as it was before the allocate, on
\* each of the three allocators.
RoundTripRestoresBlocks ==
    RoundTrip => /\ lastOp.result
                 /\ blocks = lastOp.previous.blocks_before

\* C38 witness: the round trip went through a split of a free block that
\* lies behind a block of another process, in a list with several free
\* blocks.
RoundTripThroughSplitReached ==
    /\ RoundTrip
    /\ Len(lastOp.blocks_before) = Len(blocks) + 1
    /\ Cardinality(FreeBlocks(blocks)) >= 2
    /\ \E k \in 2..Len(lastOp.blocks_before) :
           /\ lastOp.blocks_before[k].process_id = lastOp.process_id
           /\ ~is_free(lastOp.blocks_before[k - 1])

====
